---- MODULE Spec2Model ----
(***************************************************************************)
(* Model of pyvesync.helpers.Timer (src/src/pyvesync/helpers.py), the      *)
(* local countdown timer.  The timer is a record of its dataclass fields;  *)
(* every call of int(time.time()) is a sample of the wall clock `now`, and *)
(* the clock may advance between two samples of one operation.             *)
(*                                                                         *)
(* The second part models the outlets of src/src/pyvesync/vesyncoutlet.py  *)
(* and Helpers.call_api: an outlet is a record of its fields, an HTTP      *)
(* outcome is drawn for every request, and SpecOutlet runs the outlet      *)
(* operations while the timer stands still.                                *)
(***************************************************************************)
EXTENDS Integers, Sequences, FiniteSets, TLC

\* ------------------------------------------------------------------ bounds
MaxClock == 3        \* the wall clock runs from 0 to MaxClock
MaxDuration == 2     \* timer_duration ranges over 1..MaxDuration
MaxRemaining == 2    \* remaining arguments range over -1..MaxRemaining
MaxTick == 1         \* seconds the clock may advance during one operation
MaxImportAge == 1    \* seconds between module import and construction
MaxInterval == 1     \* manager.energy_update_interval ranges over 0..MaxInterval
MaxDepth == 1        \* mappings nested inside a response mapping, at most

\* ------------------------------------------------------- program constants
None == -1           \* update_time: int | None; clock values are >= 0
ImportTime == 0      \* int(time.time()) evaluated once, in the class body

\* the accepted statuses with 'paused' left out
ValidStatuses_NoPaused == {"active", "done"}

ValidStatuses == {"active", "paused", "done"}
StatusArgs == ValidStatuses \cup {"bogus"}
RemainingArgs == -1 .. MaxRemaining

VARIABLES
    now,          \* the wall clock, int(time.time())
    timer,        \* the Timer instance: timer_duration, status, remain, update_time
    call,         \* the last operation and its arguments
    pre,          \* the timer and the clock when the last operation began, and
                  \* whether that operation was the first on the new timer
    out,          \* what the last operation returned or raised
    since_pause,  \* "paused" after pause(), "resumed" after the start() that follows
    pause_remain, \* remain immediately after the last pause()
    pause_clock,  \* the clock immediately after the last pause()
    resume_clock, \* update_time immediately after the last resuming start()
    max_supplied, \* largest of timer_duration and the remaining values supplied
    dev,          \* the outlet: class, device_status, energy, update_energy_ts
    obs,          \* the last outlet operation: arguments, responses, result
    chk,          \* a response and what Helpers.nested_code_check said of it
    base          \* the remaining and update_time of a timer that is only read

vars == <<now, timer, call, pre, out, since_pause, pause_remain, pause_clock,
          resume_clock,
          max_supplied, dev, obs, chk, base>>

timerVars == <<timer, call, pre, out, since_pause, pause_remain, pause_clock,
               resume_clock, max_supplied>>

Max(a, b) == IF a >= b THEN a ELSE b

\* ------------------------------------------------------- the Timer methods

\* Timer._seconds_since_check, with c the sample of int(time.time())
SecondsSinceCheck(t, c) ==
    IF t.update_time = None THEN 0 ELSE c - t.update_time

\* end that leaves update_time in place
End_KeepsUpdateTime(t) ==
    [t EXCEPT !.status = "done", !.remain = 0]

\* Timer.end
End(t) ==
    [t EXCEPT !.status = "done", !.remain = 0, !.update_time = None]

\* _internal_update that forgets to zero remain when the timer expires
InternalUpdate_KeepRemain(t, c1, c2, c3) ==
    IF t.status = "paused"
    THEN [t EXCEPT !.update_time = None]
    ELSE LET expired == \/ t.status = "done"
                        \/ /\ SecondsSinceCheck(t, c1) > t.remain
                           /\ t.status = "active"
             t1 == IF expired
                   THEN [t EXCEPT !.status = "done", !.update_time = None]
                   ELSE t
         IN  IF t1.status = "active"
             THEN [t1 EXCEPT !.remain = t1.remain - SecondsSinceCheck(t1, c2),
                             !.update_time = c3]
             ELSE t1

\* _internal_update whose expiry test is one second late
InternalUpdate_LateExpiry(t, c1, c2, c3) ==
    IF t.status = "paused"
    THEN [t EXCEPT !.update_time = None]
    ELSE LET expired == \/ t.status = "done"
                        \/ /\ SecondsSinceCheck(t, c1) > t.remain + 1
                           /\ t.status = "active"
             t1 == IF expired
                   THEN [t EXCEPT !.status = "done", !.update_time = None,
                                  !.remain = 0]
                   ELSE t
         IN  IF t1.status = "active"
             THEN [t1 EXCEPT !.remain = t1.remain - SecondsSinceCheck(t1, c2),
                             !.update_time = c3]
             ELSE t1

\* _internal_update whose expiry test is >= instead of >
InternalUpdate_ExpiresAtBoundary(t, c1, c2, c3) ==
    IF t.status = "paused"
    THEN [t EXCEPT !.update_time = None]
    ELSE LET expired == \/ t.status = "done"
                        \/ /\ SecondsSinceCheck(t, c1) >= t.remain
                           /\ t.status = "active"
             t1 == IF expired
                   THEN [t EXCEPT !.status = "done", !.update_time = None,
                                  !.remain = 0]
                   ELSE t
         IN  IF t1.status = "active"
             THEN [t1 EXCEPT !.remain = t1.remain - SecondsSinceCheck(t1, c2),
                             !.update_time = c3]
             ELSE t1

\* Timer._internal_update; c1, c2, c3 are its three clock samples in order:
\* the expiry test, the decrement, the new update_time
InternalUpdate(t, c1, c2, c3) ==
    IF t.status = "paused"
    THEN [t EXCEPT !.update_time = None]
    ELSE LET expired == \/ t.status = "done"
                        \/ /\ SecondsSinceCheck(t, c1) > t.remain
                           /\ t.status = "active"
             t1 == IF expired
                   THEN [t EXCEPT !.status = "done", !.update_time = None,
                                  !.remain = 0]
                   ELSE t
         IN  IF t1.status = "active"
             THEN [t1 EXCEPT !.remain = t1.remain - SecondsSinceCheck(t1, c2),
                             !.update_time = c3]
             ELSE t1

\* Timer.status (getter)
StatusGetter(t) == t.status

\* Timer.status (setter) raises ValueError
StatusSetterRaises(s) == s \notin ValidStatuses

\* status setter without the `or self._status == 'done'` test
StatusSetter_NoTerminal(t, s, c1, c2, c3, c4) ==
    IF StatusSetterRaises(s)
    THEN t
    ELSE LET u == InternalUpdate(t, c1, c2, c3)
         IN  IF s = "done"
             THEN End(u)
             ELSE LET u1 == IF StatusGetter(u) = "paused" /\ s = "active"
                            THEN [u EXCEPT !.update_time = c4]
                            ELSE u
                      u2 == IF StatusGetter(u1) = "active" /\ s = "paused"
                            THEN [u1 EXCEPT !.update_time = None]
                            ELSE u1
                  IN  [u2 EXCEPT !.status = s]

\* status setter that does not stamp update_time on paused -> active
StatusSetter_NoRestamp(t, s, c1, c2, c3, c4) ==
    IF StatusSetterRaises(s)
    THEN t
    ELSE LET u == InternalUpdate(t, c1, c2, c3)
         IN  IF s = "done" \/ u.status = "done"
             THEN End(u)
             ELSE LET u2 == IF StatusGetter(u) = "active" /\ s = "paused"
                            THEN [u EXCEPT !.update_time = None]
                            ELSE u
                  IN  [u2 EXCEPT !.status = s]

\* status setter that reconciles before it validates its argument
StatusSetter_LateValidation(t, s, c1, c2, c3, c4) ==
    LET u == InternalUpdate(t, c1, c2, c3)
    IN  IF StatusSetterRaises(s)
        THEN u
        ELSE IF s = "done" \/ u.status = "done"
             THEN End(u)
             ELSE LET u1 == IF StatusGetter(u) = "paused" /\ s = "active"
                            THEN [u EXCEPT !.update_time = c4]
                            ELSE u
                      u2 == IF StatusGetter(u1) = "active" /\ s = "paused"
                            THEN [u1 EXCEPT !.update_time = None]
                            ELSE u1
                  IN  [u2 EXCEPT !.status = s]

\* Timer.status (setter): the timer it leaves behind; c4 is the sample of the
\* paused -> active branch
StatusSetter(t, s, c1, c2, c3, c4) ==
    IF StatusSetterRaises(s)
    THEN t
    ELSE LET u == InternalUpdate(t, c1, c2, c3)
         IN  IF s = "done" \/ u.status = "done"
             THEN End(u)
             ELSE LET u1 == IF StatusGetter(u) = "paused" /\ s = "active"
                            THEN [u EXCEPT !.update_time = c4]
                            ELSE u
                      u2 == IF StatusGetter(u1) = "active" /\ s = "paused"
                            THEN [u1 EXCEPT !.update_time = None]
                            ELSE u1
                  IN  [u2 EXCEPT !.status = s]

\* time_remaining getter that returns the stored value without reconciling
TimeRemainingGetter_Stale(t, c1, c2, c3) == t

\* Timer.time_remaining (getter): the timer it leaves behind
TimeRemainingGetter(t, c1, c2, c3) == InternalUpdate(t, c1, c2, c3)

\* time_remaining setter that adds to the remaining time instead of storing
TimeRemainingSetter_Adds(t, r, c1, c2, c3) ==
    IF r <= 0
    THEN End(t)
    ELSE LET u == InternalUpdate(t, c1, c2, c3)
         IN  IF u.status = "done"
             THEN [u EXCEPT !.remain = 0]
             ELSE [u EXCEPT !.remain = u.remain + r]

\* time_remaining setter whose termination test is < 0 instead of <= 0
TimeRemainingSetter_StrictNegative(t, r, c1, c2, c3) ==
    IF r < 0
    THEN End(t)
    ELSE LET u == InternalUpdate(t, c1, c2, c3)
         IN  IF u.status = "done"
             THEN [u EXCEPT !.remain = 0]
             ELSE [u EXCEPT !.remain = r]

\* time_remaining setter without the test for a timer that is done
TimeRemainingSetter_Revives(t, r, c1, c2, c3) ==
    IF r <= 0
    THEN End(t)
    ELSE LET u == InternalUpdate(t, c1, c2, c3)
         IN  [u EXCEPT !.remain = r]

\* Timer.time_remaining (setter)
TimeRemainingSetter(t, r, c1, c2, c3) ==
    IF r <= 0
    THEN End(t)
    ELSE LET u == InternalUpdate(t, c1, c2, c3)
         IN  IF u.status = "done"
             THEN [u EXCEPT !.remain = 0]
             ELSE [u EXCEPT !.remain = r]

\* start that does not test for a paused timer
Start_Unconditional(t, c1, c2) ==
    StatusSetter([t EXCEPT !.update_time = c1], "active", c1, c1, c1, c2)

\* start that restarts the countdown from timer_duration
Start_Restart(t, c1, c2) ==
    IF t.status # "paused"
    THEN t
    ELSE StatusSetter([t EXCEPT !.update_time = c1, !.remain = t.timer_duration],
                      "active", c1, c1, c1, c2)

\* Timer.start; c1 is the sample of start itself, c2 the one of the setter
\* (the setter's _internal_update reads no clock on a paused timer)
Start(t, c1, c2) ==
    IF t.status # "paused"
    THEN t
    ELSE StatusSetter([t EXCEPT !.update_time = c1], "active", c1, c1, c1, c2)

\* Timer.start raises: the setter rejects the status start passes to it
StartRaises(t) ==
    t.status = "paused" /\ StatusSetterRaises("active")

\* Timer.pause raises: the setter rejects the status pause passes to it
PauseRaises(t, c1, c2, c3) ==
    /\ StatusGetter(InternalUpdate(t, c1, c2, c3)) # "done"
    /\ StatusSetterRaises("paused")

\* Timer.pause
Pause(t, c1, c2, c3, c4, c5, c6) ==
    LET u == InternalUpdate(t, c1, c2, c3)
    IN  IF StatusGetter(u) = "done"
        THEN u
        ELSE [StatusSetter(u, "paused", c4, c5, c6, c6)
                  EXCEPT !.update_time = None]

\* update that never applies its status argument
Update_SkipsStatus(t, hasR, r, hasS, s, c1, c2, c3, c4, c5, c6, c7) ==
    IF hasR THEN TimeRemainingSetter(t, r, c1, c2, c3) ELSE t

\* update that validates its status argument before it sets the remaining time
Update_ValidatesFirst(t, hasR, r, hasS, s, c1, c2, c3, c4, c5, c6, c7) ==
    IF hasS /\ StatusSetterRaises(s)
    THEN t
    ELSE LET u == IF hasR THEN TimeRemainingSetter(t, r, c1, c2, c3) ELSE t
         IN  IF hasS THEN StatusSetter(u, s, c4, c5, c6, c7) ELSE u

\* Timer.update(time_remaining=r if hasR, status=s if hasS): the timer it
\* leaves behind, also when the status setter raises
Update(t, hasR, r, hasS, s, c1, c2, c3, c4, c5, c6, c7) ==
    LET u == IF hasR THEN TimeRemainingSetter(t, r, c1, c2, c3) ELSE t
    IN  IF hasS THEN StatusSetter(u, s, c4, c5, c6, c7) ELSE u

\* Timer.running: (value, timer left behind)
Running(t, c1, c2, c3) ==
    LET u == TimeRemainingGetter(t, c1, c2, c3)
    IN  [value |-> (u.remain > 0 /\ StatusGetter(u) = "active"), timer |-> u]

\* Timer.paused
Paused(t) == StatusGetter(t) = "paused"

\* done that looks at the status only
Done_StatusOnly(t, c1, c2, c3) ==
    LET u == TimeRemainingGetter(t, c1, c2, c3)
    IN  [value |-> (u.status = "done"), timer |-> u]

\* Timer.done: (value, timer left behind)
Done(t, c1, c2, c3) ==
    LET u == TimeRemainingGetter(t, c1, c2, c3)
    IN  [value |-> (u.remain <= 0 \/ u.status = "done"), timer |-> u]

\* Timer.__post_init__ after the dataclass __init__
NewTimer(duration, hasR, r) ==
    [timer_duration |-> duration,
     status         |-> "active",
     remain         |-> IF hasR THEN r ELSE duration,
     update_time    |-> ImportTime]

\* ------------------------------------------------------- nested_code_check
\* A response value is a number or a mapping; a mapping is the set of its
\* (key, value) items.
IntVal(n) == [tag |-> "int", n |-> n, items |-> {}]
DictVal(items) == [tag |-> "dict", n |-> 0, items |-> items]

\* the keys and the numbers of the responses checked
Keys == {"code", "result"}
Scalars == {IntVal(0), IntVal(1)}

\* the mappings with at most d mappings nested inside one another
RECURSIVE Dicts(_)
Dicts(d) ==
    LET values == IF d = 0 THEN Scalars ELSE Scalars \cup Dicts(d - 1)
    IN  UNION {{DictVal({<<k, f[k]>> : k \in K}) : f \in [K -> values]} :
                  K \in SUBSET Keys}

\* what nested_code_check is called with: a mapping, or a value that is not one
Responses == Dicts(MaxDepth) \cup Scalars

\* nested_code_check that looks at the top-level code only
NestedCodeCheck_TopLevel(response) ==
    IF response.tag = "dict"
    THEN ~ \E item \in response.items :
               item[1] = "code" /\ item[2] # IntVal(0)
    ELSE TRUE

\* Helpers.nested_code_check
RECURSIVE NestedCodeCheck(_)
NestedCodeCheck(response) ==
    IF response.tag = "dict"
    THEN ~ \E item \in response.items :
               \/ item[1] = "code" /\ item[2] # IntVal(0)
               \/ item[2].tag = "dict" /\ ~NestedCodeCheck(item[2])
    ELSE TRUE

NoCheck == [op |-> "none", response |-> IntVal(0), result |-> FALSE]

\* ------------------------------------------------------- Helpers.call_api
\* const.ERR_RATE_LIMITS: the response codes that signal rate limiting
ERR_RATE_LIMITS == {2}

\* the `code` values of a JSON body: success, a failure, a rate limit
ResponseCodes == {0, 1} \cup ERR_RATE_LIMITS

\* a JSON body: its code, the code and powerSwitch_1 of its `result`, and
\* whether it carries the energy keys the 7A outlet looks for
Bodies ==
    [code : ResponseCodes, result_code : {0, 1}, powerSwitch_1 : {0, 1},
     keys : BOOLEAN]
NoBody == [code |-> 0, result_code |-> 0, powerSwitch_1 |-> 0, keys |-> FALSE]

\* what requests.<method>(...) does: raise, or answer with a status and a body
HttpOutcomes ==
    {[kind |-> "exception", status_code |-> 0, json |-> FALSE, body |-> NoBody]}
    \cup {[kind |-> "response", status_code |-> sc, json |-> FALSE, body |-> NoBody] :
             sc \in {200, 500}}
    \cup {[kind |-> "response", status_code |-> sc, json |-> TRUE, body |-> b] :
             sc \in {200, 500}, b \in Bodies}

\* LibraryLogger.is_json(r.text)
IsJson(h) == h.json

ApiNone == [kind |-> "none", body |-> NoBody]
ApiText == [kind |-> "text", body |-> NoBody]
ApiRaise == [kind |-> "raise", body |-> NoBody]
ApiJson(b) == [kind |-> "json", body |-> b]

\* call_api that does not look at the HTTP status
CallApi_AnyStatus(h) ==
    IF h.kind = "exception"
    THEN ApiNone
    ELSE IF IsJson(h)
         THEN IF h.body.code \in ERR_RATE_LIMITS THEN ApiRaise ELSE ApiJson(h.body)
         ELSE ApiText

\* Helpers.call_api: None, the text, the parsed JSON, or VeSyncRateLimitError
CallApi(h) ==
    IF h.kind = "exception"
    THEN ApiNone
    ELSE IF h.status_code = 200
         THEN IF IsJson(h)
              THEN IF h.body.code \in ERR_RATE_LIMITS
                   THEN ApiRaise
                   ELSE ApiJson(h.body)
              ELSE ApiText
         ELSE ApiNone

\* Helpers.code_check
CodeCheck(r) == r.kind = "json" /\ r.body.code = 0

\* Helpers.code_check logs 'No response from API'
CodeCheckLogs(r) == IF r.kind = "none" THEN 1 ELSE 0

\* ------------------------------------------------------- the outlets
OutletClasses ==
    {"VeSyncOutlet7A", "VeSyncOutlet10A", "VeSyncOutlet15A", "VeSyncOutdoorPlug",
     "VeSyncOutletBSDGO1", "VeSyncOutletWYSMTOD16A"}
V2Classes == {"VeSyncOutletBSDGO1", "VeSyncOutletWYSMTOD16A"}

\* supports('energyHistory'), from outlet_configs
Supports(cls) == cls \notin V2Classes

STATUS_ON == "on"
STATUS_OFF == "off"
Periods == {"week", "month", "year"}

\* what the requests of one operation can return: the results of call_api
\* on the HTTP outcomes that differ in the fields the operation reads
TurnResults ==
    {CallApi(h) : h \in {x \in HttpOutcomes :
                            x.body.powerSwitch_1 = 0 /\ ~x.body.keys}}
DetailResults ==
    {CallApi(h) : h \in {x \in HttpOutcomes : ~x.body.keys}}
EnergyResults ==
    {CallApi(h) : h \in {x \in HttpOutcomes :
                            /\ x.body.powerSwitch_1 = 0
                            /\ x.body.result_code = 0
                            /\ x.body.keys = (x.body.code = 0)}}
        \cup {ApiJson([NoBody EXCEPT !.code = 1, !.keys = TRUE])}

NoDevice ==
    [cls |-> "", device_status |-> "", connection_status |-> "",
     energy |-> [p \in Periods |-> "unset"], update_energy_ts |-> None,
     energy_update_interval |-> 0]

NoObs ==
    [op |-> "none", arg |-> "", bypass |-> FALSE, r |-> ApiNone,
     http |-> [kind |-> "exception", status_code |-> 0, json |-> FALSE,
               body |-> NoBody],
     before_status |-> "", requests |-> <<>>, errors |-> 0, ret |-> "",
     raised |-> FALSE, ran |-> FALSE]

\* VeSyncOutlet.__init__
NewOutlet(cls, status, interval) ==
    [NoDevice EXCEPT !.cls = cls, !.device_status = status,
                     !.connection_status = "online",
                     !.energy_update_interval = interval]

\* the result of an operation: the outlet it leaves, what it returns, whether
\* it raises
Result(d, ret, raised) == [d |-> d, ret |-> ret, raised |-> raised]

\* VeSync.post_device_managed_v2: hands the bypassV2 request to call_api
PostDeviceManagedV2(r) == r

\* VeSyncOutletV2.get_response on the response r: (code, error) and the outlet
GetResponse(d, r) ==
    IF r.kind = "raise"
    THEN [d |-> d, code |-> "None", error |-> "raise", raised |-> TRUE]
    ELSE LET response == PostDeviceManagedV2(r)
         IN  IF CodeCheck(response)
             THEN IF response.body.result_code = 0
                  THEN [d |-> d, code |-> "result", error |-> "None",
                        raised |-> FALSE]
                  ELSE [d |-> d, code |-> "None", error |-> "wrong argument",
                        raised |-> FALSE]
             ELSE IF response.kind = "json"
                  THEN [d |-> d, code |-> "None", error |-> "msg",
                        raised |-> FALSE]
             ELSE IF response.kind = "text"
                  \* response['code'] on a str
                  THEN [d |-> d, code |-> "None", error |-> "TypeError",
                        raised |-> TRUE]
             ELSE [d |-> [d EXCEPT !.connection_status = "offline"],
                   code |-> "None", error |-> "offline", raised |-> FALSE]

\* VeSyncOutlet7A.turn
Turn7A(d, status, r) ==
    IF r.kind = "raise" THEN Result(d, "raise", TRUE)
    ELSE IF r.kind = "none" THEN Result(d, "False", FALSE)
    ELSE Result([d EXCEPT !.device_status = status], "True", FALSE)

\* VeSyncOutlet10A.turn, VeSyncOutlet15A.turn, VeSyncOutdoorPlug.turn
TurnCodeChecked(d, status, r) ==
    IF r.kind = "raise" THEN Result(d, "raise", TRUE)
    ELSE IF CodeCheck(r)
         THEN Result([d EXCEPT !.device_status = status], "True", FALSE)
         ELSE Result(d, "False", FALSE)

\* VeSyncOutletBSDGO1.turn, VeSyncOutletWYSMTOD16A.turn
TurnV2(d, status, r) ==
    LET g == GetResponse(d, r)
    IN  IF g.raised THEN Result(g.d, "raise", TRUE)
        ELSE IF g.error = "None"
             THEN Result([g.d EXCEPT !.device_status = status], "True", FALSE)
             ELSE Result(g.d, "False", FALSE)

\* <outlet class>.turn
Turn(d, status, r) ==
    IF d.cls = "VeSyncOutlet7A" THEN Turn7A(d, status, r)
    ELSE IF d.cls \in V2Classes THEN TurnV2(d, status, r)
    ELSE TurnCodeChecked(d, status, r)

\* VeSyncOutletBSDGO1.get_details
GetDetailsBSDGO1(d, r) ==
    LET g == GetResponse(d, r)
    IN  IF g.raised THEN Result(g.d, "raise", TRUE)
        ELSE IF g.code # "None"
             THEN IF r.body.powerSwitch_1 = 1
                  THEN Result([g.d EXCEPT !.device_status = STATUS_ON], "None", FALSE)
                  ELSE Result([g.d EXCEPT !.device_status = STATUS_OFF], "None", FALSE)
             ELSE Result(g.d, "None", FALSE)

\* <outlet class>.get_energy succeeds on the response r
EnergyOk(cls, r) ==
    IF cls = "VeSyncOutlet7A"
    THEN r.kind = "json" /\ r.body.keys
    ELSE CodeCheck(r)

\* the errors <outlet class>.get_energy logs on the response r
EnergyErrors(cls, r) ==
    IF EnergyOk(cls, r) THEN 0
    ELSE IF cls = "VeSyncOutlet7A" THEN 1
    ELSE 1 + CodeCheckLogs(r)

\* the state of a running update_energy: the outlet, the requests issued, the
\* errors logged, whether a request raised, what the last fetch returned
Run(d) ==
    [d |-> d, requests |-> <<>>, errors |-> 0, raised |-> FALSE, last |-> "",
     ran |-> FALSE]

\* VeSyncOutlet.get_weekly_energy / get_monthly_energy / get_yearly_energy
\* with the outlet's get_energy, on the response r
GetPeriodEnergy(st, period, r) ==
    IF st.raised THEN st
    ELSE IF ~Supports(st.d.cls) THEN [st EXCEPT !.last = "None"]
    ELSE IF r.kind = "raise"
         THEN [st EXCEPT !.requests = Append(@, period), !.raised = TRUE]
    ELSE LET ok == EnergyOk(st.d.cls, r)
         IN  [st EXCEPT !.d.energy[period] = IF ok THEN "data" ELSE "None",
                        !.requests = Append(@, period),
                        !.errors = @ + EnergyErrors(st.d.cls, r),
                        !.last = IF ok THEN "data" ELSE "None"]

\* update_time_check that already passes when exactly the interval has elapsed
UpdateTimeCheck_AtInterval(d, c) ==
    IF d.update_energy_ts = None THEN TRUE
    ELSE (c - d.update_energy_ts) >= d.energy_update_interval

\* VeSyncOutlet.update_time_check, with c the sample of time.time()
UpdateTimeCheck(d, c) ==
    IF d.update_energy_ts = None THEN TRUE
    ELSE (c - d.update_energy_ts) > d.energy_update_interval

\* update_energy that fetches month and year whatever the weekly fetch gave
UpdateEnergy_FetchesAll(d, bypass_check, rw, rm, ry, c1, c2, c3) ==
    IF bypass_check \/ (~bypass_check /\ UpdateTimeCheck(d, c1))
    THEN LET s1 == [Run(d) EXCEPT !.d.update_energy_ts = c2, !.ran = TRUE]
             s2 == GetPeriodEnergy(s1, "week", rw)
             s3 == GetPeriodEnergy(GetPeriodEnergy(s2, "month", rm), "year", ry)
         IN  IF s3.raised \/ bypass_check
             THEN s3
             ELSE [s3 EXCEPT !.d.update_energy_ts = c3]
    ELSE Run(d)

\* VeSyncOutlet.update_energy; rw, rm, ry are the responses to the weekly,
\* monthly and yearly request, c1, c2, c3 the samples of time.time()
UpdateEnergy(d, bypass_check, rw, rm, ry, c1, c2, c3) ==
    IF bypass_check \/ (~bypass_check /\ UpdateTimeCheck(d, c1))
    THEN LET s1 == [Run(d) EXCEPT !.d.update_energy_ts = c2, !.ran = TRUE]
             s2 == GetPeriodEnergy(s1, "week", rw)
             s3 == IF s2.raised THEN s2
                   ELSE IF s2.last # "None"
                        THEN GetPeriodEnergy(GetPeriodEnergy(s2, "month", rm),
                                             "year", ry)
                        ELSE [s2 EXCEPT !.d.energy["month"] = "empty",
                                        !.d.energy["year"] = "empty"]
         IN  IF s3.raised \/ bypass_check
             THEN s3
             ELSE [s3 EXCEPT !.d.update_energy_ts = c3]
    ELSE Run(d)

\* ------------------------------------------------------- clock samples
\* An operation that begins at `now` samples the clock up to k+1 times; P is
\* the set of gaps (gap j lies between sample j and sample j+1) in which the
\* clock advances by one second.  One operation lasts at most MaxTick seconds.
TickPoints(k) ==
    {P \in SUBSET (1 .. k) :
        Cardinality(P) <= MaxTick /\ now + Cardinality(P) <= MaxClock}

\* the i-th clock sample of the operation
Sample(P, i) == now + Cardinality({j \in P : j < i})

\* ------------------------------------------------------- observation
NoOut == [remaining |-> 0, status |-> "", flag |-> FALSE, raised |-> FALSE]
Call(op, hasR, r, hasS, s) ==
    [op |-> op, hasR |-> hasR, r |-> r, hasS |-> hasS, s |-> s]
Call0(op) == Call(op, FALSE, 0, FALSE, "")

Reads == {"get_remaining", "get_status", "is_running", "is_paused", "is_done"}

\* the operation op begins now, leaves timer t and the clock at c
Step(op, t, c, o) ==
    /\ timer' = t
    /\ now' = c
    /\ call' = op
    /\ pre' = [timer |-> timer, now |-> now, fresh |-> (call.op = "init")]
    /\ out' = o
    /\ max_supplied' = IF op.hasR THEN Max(max_supplied, op.r) ELSE max_supplied
    /\ since_pause' =
         IF op.op = "pause" /\ t.status = "paused" THEN "paused"
         ELSE IF op.op = "start" /\ since_pause = "paused" THEN "resumed"
         ELSE IF op.op \in Reads \cup {"tick"} THEN since_pause
         ELSE "none"
    /\ pause_remain' =
         IF since_pause' = "none" THEN 0
         ELSE IF op.op = "pause" THEN t.remain
         ELSE pause_remain
    /\ pause_clock' =
         IF since_pause' = "none" THEN 0
         ELSE IF op.op = "pause" THEN c
         ELSE pause_clock
    /\ resume_clock' =
         IF since_pause' # "resumed" THEN 0
         ELSE IF op.op = "start" THEN t.update_time
         ELSE resume_clock
    /\ UNCHANGED <<dev, obs, chk, base>>

NoBase == [remain |-> 0, update_time |-> None]

\* ------------------------------------------------------- the state machine
Init ==
    /\ now \in ImportTime .. ImportTime + MaxImportAge
    /\ \E duration \in 1 .. MaxDuration, hasR \in BOOLEAN, r \in RemainingArgs :
         /\ (~hasR => r = 0)
         /\ timer = NewTimer(duration, hasR, r)
         /\ max_supplied = IF hasR THEN Max(duration, r) ELSE duration
    /\ call = Call0("init")
    /\ pre = [timer |-> timer, now |-> now, fresh |-> FALSE]
    /\ out = NoOut
    /\ since_pause = "none"
    /\ pause_remain = 0
    /\ pause_clock = 0
    /\ resume_clock = 0
    /\ dev = NoDevice
    /\ obs = NoObs
    /\ chk = NoCheck
    /\ base = NoBase

\* the wall clock advances between two operations
Tick ==
    /\ now < MaxClock
    /\ Step(Call0("tick"), timer, now + 1, NoOut)

GetRemaining ==
    \E d \in TickPoints(2) :
        LET u == TimeRemainingGetter(timer, Sample(d, 1), Sample(d, 2), Sample(d, 3))
        IN  Step(Call0("get_remaining"), u, Sample(d, 3),
                 [NoOut EXCEPT !.remaining = u.remain])

GetStatus ==
    Step(Call0("get_status"), timer, now,
         [NoOut EXCEPT !.status = StatusGetter(timer)])

SetStatus ==
    \E s \in StatusArgs, d \in TickPoints(3) :
        Step(Call("set_status", FALSE, 0, TRUE, s),
             StatusSetter(timer, s, Sample(d, 1), Sample(d, 2), Sample(d, 3),
                          Sample(d, 4)),
             Sample(d, 4),
             [NoOut EXCEPT !.raised = StatusSetterRaises(s)])

SetRemaining ==
    \E r \in RemainingArgs, d \in TickPoints(2) :
        Step(Call("set_remaining", TRUE, r, FALSE, ""),
             TimeRemainingSetter(timer, r, Sample(d, 1), Sample(d, 2), Sample(d, 3)),
             Sample(d, 3), NoOut)

EndTimer ==
    Step(Call0("end"), End(timer), now, NoOut)

StartTimer ==
    \E d \in TickPoints(1) :
        Step(Call0("start"), Start(timer, Sample(d, 1), Sample(d, 2)),
             Sample(d, 2), [NoOut EXCEPT !.raised = StartRaises(timer)])

PauseTimer ==
    \E d \in TickPoints(5) :
        Step(Call0("pause"),
             Pause(timer, Sample(d, 1), Sample(d, 2), Sample(d, 3),
                   Sample(d, 4), Sample(d, 5), Sample(d, 6)),
             Sample(d, 6),
             [NoOut EXCEPT !.raised = PauseRaises(timer, Sample(d, 1), Sample(d, 2),
                                                  Sample(d, 3))])

UpdateTimer ==
    \E hasR \in BOOLEAN, r \in RemainingArgs, hasS \in BOOLEAN, s \in StatusArgs,
       d \in TickPoints(6) :
        /\ (~hasR => r = 0)
        /\ (~hasS => s = "active")
        /\ Step(Call("update", hasR, r, hasS, IF hasS THEN s ELSE ""),
                Update(timer, hasR, r, hasS, s, Sample(d, 1), Sample(d, 2),
                       Sample(d, 3), Sample(d, 4), Sample(d, 5), Sample(d, 6),
                       Sample(d, 7)),
                Sample(d, 7),
                [NoOut EXCEPT !.raised = hasS /\ StatusSetterRaises(s)])

IsRunning ==
    \E d \in TickPoints(2) :
        LET res == Running(timer, Sample(d, 1), Sample(d, 2), Sample(d, 3))
        IN  Step(Call0("is_running"), res.timer, Sample(d, 3),
                 [NoOut EXCEPT !.flag = res.value])

IsPaused ==
    Step(Call0("is_paused"), timer, now, [NoOut EXCEPT !.flag = Paused(timer)])

IsDone ==
    \E d \in TickPoints(2) :
        LET res == Done(timer, Sample(d, 1), Sample(d, 2), Sample(d, 3))
        IN  Step(Call0("is_done"), res.timer, Sample(d, 3),
                 [NoOut EXCEPT !.flag = res.value])

Next ==
    \/ Tick
    \/ GetRemaining
    \/ GetStatus
    \/ SetStatus
    \/ SetRemaining
    \/ EndTimer
    \/ StartTimer
    \/ PauseTimer
    \/ UpdateTimer
    \/ IsRunning
    \/ IsPaused
    \/ IsDone

Spec == Init /\ [][Next]_vars

\* a timer that is constructed and from then on only read
InitReads ==
    /\ now \in ImportTime .. ImportTime + MaxImportAge
    /\ \E duration \in 1 .. MaxDuration, hasR \in BOOLEAN, r \in RemainingArgs :
         /\ (~hasR => r = 0)
         /\ timer = NewTimer(duration, hasR, r)
         /\ max_supplied = IF hasR THEN Max(duration, r) ELSE duration
    /\ base = [remain |-> timer.remain, update_time |-> timer.update_time]
    /\ call = Call0("init")
    /\ pre = [timer |-> timer, now |-> now, fresh |-> FALSE]
    /\ out = NoOut
    /\ since_pause = "none"
    /\ pause_remain = 0
    /\ pause_clock = 0
    /\ resume_clock = 0
    /\ dev = NoDevice
    /\ obs = NoObs
    /\ chk = NoCheck

NextReads ==
    \/ Tick
    \/ GetRemaining
    \/ GetStatus

\* reads of a timer at the times the clock passes through
SpecReads == InitReads /\ [][NextReads]_vars

\* get_remaining() with the clock kept relative to update_time: the Timer
\* uses the clock only in int(time.time()) - update_time, so after the read
\* the clock is counted from the update_time it left (from 0 once the timer is
\* done) and can advance for ever within 0 .. MaxClock
GetRemainingRelative ==
    \E d \in TickPoints(2) :
        LET u == TimeRemainingGetter(timer, Sample(d, 1), Sample(d, 2), Sample(d, 3))
            origin == IF u.update_time = None THEN Sample(d, 3) ELSE u.update_time
        IN  Step(Call0("get_remaining"),
                 [u EXCEPT !.update_time = IF @ = None THEN None ELSE 0],
                 Sample(d, 3) - origin,
                 [NoOut EXCEPT !.remaining = u.remain])

NextLive ==
    \/ Tick
    \/ GetRemainingRelative

\* the clock keeps advancing between the calls and the timer keeps being read
SpecLive ==
    /\ InitReads
    /\ [][NextLive]_vars
    /\ WF_vars(Tick)
    /\ WF_vars(GetRemainingRelative)

\* ------------------------------------------------------- the outlet machine
\* an outlet operation leaves outlet d, the clock at c and the record o
OutletStep(d, c, o) ==
    /\ dev' = d
    /\ now' = c
    /\ obs' = o
    /\ UNCHANGED timerVars
    /\ UNCHANGED <<chk, base>>

\* the timer stands still while the outlet runs
TimerIdle ==
    /\ timer = NewTimer(1, FALSE, 0)
    /\ call = Call0("none")
    /\ pre = [timer |-> timer, now |-> now, fresh |-> FALSE]
    /\ out = NoOut
    /\ since_pause = "none"
    /\ pause_remain = 0
    /\ pause_clock = 0
    /\ resume_clock = 0
    /\ max_supplied = 1

InitOutlet ==
    /\ now = 0
    /\ TimerIdle
    /\ \E cls \in OutletClasses, status \in {STATUS_ON, STATUS_OFF},
          interval \in 0 .. MaxInterval :
         dev = NewOutlet(cls, status, interval)
    /\ obs = NoObs
    /\ chk = NoCheck
    /\ base = NoBase

\* turn(status), and so turn_on() and turn_off()
TurnOutlet ==
    \E status \in {STATUS_ON, STATUS_OFF}, r \in TurnResults :
        LET res == Turn(dev, status, r)
        IN  OutletStep(res.d, now,
                [NoObs EXCEPT !.op = "turn", !.arg = status, !.r = r,
                              !.before_status = dev.device_status,
                              !.ret = res.ret, !.raised = res.raised])

GetDetails ==
    /\ dev.cls = "VeSyncOutletBSDGO1"
    /\ \E r \in DetailResults :
        LET res == GetDetailsBSDGO1(dev, r)
        IN  OutletStep(res.d, now,
                [NoObs EXCEPT !.op = "get_details", !.r = r,
                              !.before_status = dev.device_status,
                              !.ret = res.ret, !.raised = res.raised])

\* Helpers.call_api on one request
CallApiRequest ==
    \E h \in HttpOutcomes :
        OutletStep(dev, now,
            [NoObs EXCEPT !.op = "call_api", !.http = h, !.r = CallApi(h),
                          !.before_status = dev.device_status,
                          !.raised = (CallApi(h).kind = "raise")])

NextOutlet ==
    \/ TurnOutlet
    \/ GetDetails
    \/ CallApiRequest

\* switching and polling the outlets, and the requests of Helpers.call_api
SpecOutlet == InitOutlet /\ [][NextOutlet]_vars

\* the wall clock advances between two outlet operations
OutletTick ==
    /\ now < MaxClock
    /\ OutletStep(dev, now + 1, [NoObs EXCEPT !.op = "tick"])

\* the responses to draw for the n-th request of an update_energy that has
\* issued n requests so far
Drawn(issued, n) == IF Len(issued) >= n THEN EnergyResults ELSE {ApiNone}

UpdateEnergyOutlet ==
    \E bypass_check \in BOOLEAN, P \in TickPoints(2) :
        LET c1 == Sample(P, 1)
            c2 == Sample(P, 2)
            c3 == Sample(P, 3)
            Go(rw, rm, ry) == UpdateEnergy(dev, bypass_check, rw, rm, ry, c1, c2, c3)
        IN  \E rw \in Drawn(Go(ApiJson(NoBody), ApiNone, ApiNone).requests, 1) :
            \E rm \in Drawn(Go(rw, ApiNone, ApiNone).requests, 2) :
            \E ry \in Drawn(Go(rw, rm, ApiNone).requests, 3) :
                LET st == Go(rw, rm, ry)
                IN  OutletStep(st.d, c3,
                        [NoObs EXCEPT !.op = "update_energy",
                                      !.bypass = bypass_check, !.r = rw,
                                      !.requests = st.requests,
                                      !.errors = st.errors,
                                      !.ret = IF st.raised THEN "raise" ELSE "None",
                                      !.raised = st.raised, !.ran = st.ran])

NextEnergy ==
    \/ OutletTick
    \/ UpdateEnergyOutlet

\* the energy history of the outlets under the wall clock
SpecEnergy == InitOutlet /\ [][NextEnergy]_vars

InitCheck ==
    /\ now = 0
    /\ TimerIdle
    /\ dev = NoDevice
    /\ obs = NoObs
    /\ base = NoBase
    /\ \E response \in Responses :
         chk = [op |-> "received", response |-> response, result |-> FALSE]

\* Helpers.nested_code_check(response)
CheckResponse ==
    /\ chk.op = "received"
    /\ chk' = [chk EXCEPT !.op = "nested_code_check",
                          !.result = NestedCodeCheck(chk.response)]
    /\ UNCHANGED <<now, dev, obs, base>>
    /\ UNCHANGED timerVars

NextCheck == CheckResponse

\* the responses handed to Helpers.nested_code_check
SpecCheck == InitCheck /\ [][NextCheck]_vars

TypeOK ==
    /\ now \in 0 .. MaxClock
    /\ timer.status \in ValidStatuses
    /\ timer.update_time \in {None} \cup 0 .. MaxClock
    /\ timer.timer_duration \in 1 .. MaxDuration

\* ------------------------------------------------------- properties

\* more seconds than remain have elapsed on the active timer `pre.timer`
\* when the last operation began
ElapsedBefore == pre.now - pre.timer.update_time
ActiveBefore == pre.timer.status = "active" /\ pre.timer.update_time # None

\* C1: done is terminal -- no operation and no clock advance takes a timer
\* whose status is 'done' to any other status.
C1_DoneIsTerminal ==
    [][timer.status = "done" => timer'.status = "done"]_vars

C1_Witness ==
    /\ call.op = "set_status" /\ call.s = "active"
    /\ pre.timer.status = "done"
    /\ timer.status = "done"

\* C2: in every reachable state, status 'done' implies that the stored
\* remaining is 0 and that update_time is None.
C2_DoneImpliesCleared ==
    timer.status = "done" => timer.remain = 0 /\ timer.update_time = None

C2_Witness ==
    /\ call.op \in {"get_remaining", "pause", "is_done"}
    /\ pre.timer.status = "active" /\ pre.timer.remain > 0
    /\ timer.status = "done"

C4_NeverNegative ==
    call.op = "get_remaining" => out.remaining >= 0 /\ timer.remain >= 0

\* C5 as stated: the remaining time never exceeds timer_duration.
C5_RemainingWithinDuration ==
    timer.remain <= timer.timer_duration

\* C5 amended: the remaining time never exceeds the largest of timer_duration
\* and the values supplied as initial remaining or to set_remaining/update.
C5_RemainingWithinSupplied ==
    timer.remain <= max_supplied

C5_Witness ==
    /\ call.op \in {"set_remaining", "update"} /\ call.hasR
    /\ call.r > timer.timer_duration
    /\ timer.remain = call.r

\* C6: reading the status of an active timer on which more seconds than
\* remaining have elapsed returns 'done', without any reconciling operation
\* in between.
C6_StatusReadReconciles ==
    (call.op = "get_status" /\ ActiveBefore /\ ElapsedBefore > pre.timer.remain)
        => out.status = "done"

\* C7: set_status with an unrecognized value raises and leaves status,
\* remaining and update_time exactly as they were (no reconciliation).
C7_InvalidStatusLeavesTimer ==
    (call.op = "set_status" /\ call.s \notin ValidStatuses)
        => out.raised /\ timer = pre.timer

C7_Witness ==
    /\ call.op = "set_status" /\ call.s = "bogus"
    /\ ActiveBefore /\ ElapsedBefore > pre.timer.remain
    /\ out.raised /\ timer.status = "active"

\* C8: no time accrues while paused -- through clock advances and reads the
\* paused timer keeps the remaining it had right after pause(), start() leaves
\* that remaining unchanged, and afterwards only the seconds elapsed since the
\* resume are charged.
C8_NoAccrualWhilePaused ==
    /\ since_pause = "paused"
          => timer.status = "paused" /\ timer.remain = pause_remain
    /\ (since_pause = "resumed" /\ call.op = "start")
          => timer.status = "active" /\ timer.remain = pause_remain
    /\ since_pause = "resumed"
          => timer.remain >= pause_remain - (now - resume_clock)

C8_Witness ==
    /\ call.op = "start" /\ since_pause = "resumed"
    /\ pre.now > pause_clock
    /\ pause_remain > 0 /\ timer.remain = pause_remain
    /\ timer.status = "active"

\* C9: when strictly more seconds than remaining have elapsed on an active
\* timer, get_remaining returns 0 and the status is 'done'.
C9_Expiry ==
    (call.op = "get_remaining" /\ ActiveBefore /\ ElapsedBefore > pre.timer.remain)
        => out.remaining = 0 /\ timer.status = "done"

C9_Witness ==
    /\ call.op = "get_remaining" /\ ActiveBefore
    /\ pre.timer.remain > 0 /\ ElapsedBefore = pre.timer.remain + 1
    /\ out.remaining = 0 /\ timer.status = "done"

\* C10 as stated: when exactly as many seconds as remaining have elapsed on
\* an active timer, reading it yields status 'done' and remaining 0.
C10_ExpiryAtBoundary ==
    (call.op = "get_remaining" /\ ActiveBefore /\ ElapsedBefore = pre.timer.remain)
        => out.remaining = 0 /\ timer.status = "done"

\* C10 amended: at elapsed == remaining get_remaining leaves the status
\* 'active' and returns 0 (a value <= 0 when the clock advances inside the
\* call); only elapsed > remaining makes the status 'done'.
C10_BoundaryStaysActive ==
    (call.op = "get_remaining" /\ ActiveBefore /\ ElapsedBefore = pre.timer.remain)
        => /\ timer.status = "active"
           /\ out.remaining <= 0
           /\ now = pre.now => out.remaining = 0

C10_Witness ==
    /\ call.op = "get_remaining" /\ ActiveBefore
    /\ pre.timer.remain > 0 /\ ElapsedBefore = pre.timer.remain
    /\ out.remaining = 0 /\ timer.status = "active"

\* C11: a Timer(duration, action) read at construction time reports status
\* 'active' and get_remaining() == duration, however long the process has
\* been running before the construction (the clock does not advance between
\* the construction and the end of the read).
C11_FreshTimerFull ==
    (call.op = "get_remaining" /\ pre.fresh /\ now = pre.now
        /\ pre.timer.remain = pre.timer.timer_duration)
        => out.remaining = pre.timer.timer_duration /\ timer.status = "active"

\* C12: end() is unconditional and idempotent -- from any state it yields status
\* 'done', remaining 0 and update_time None, and on a timer that is already
\* done it changes nothing.
C12_EndIdempotent ==
    call.op = "end"
        => /\ timer.status = "done" /\ timer.remain = 0
           /\ timer.update_time = None
           /\ timer.timer_duration = pre.timer.timer_duration
           /\ ~out.raised
           /\ pre.timer.status = "done" => timer = pre.timer

C12_Witness ==
    /\ call.op = "end"
    /\ ActiveBefore /\ pre.timer.remain > 0
    /\ ElapsedBefore > 0
    /\ timer.status = "done" /\ timer.update_time = None

\* C13: set_remaining(s) with s <= 0 forces the terminal state from any state,
\* the same status, remaining and update_time as end() produces.
C13_NonPositiveRemainingEnds ==
    (call.op = "set_remaining" /\ call.r <= 0)
        => /\ timer = End(pre.timer)
           /\ timer.status = "done" /\ timer.remain = 0
           /\ timer.update_time = None

C13_Witness ==
    /\ call.op = "set_remaining" /\ call.r = 0
    /\ pre.timer.status = "paused" /\ pre.timer.remain > 0
    /\ timer.status = "done"

\* C14: set_remaining(s) with s > 0 on a timer that is done, or that becomes
\* done in the reconciliation of that call, leaves status 'done' and
\* remaining 0.
C14_NoRevival ==
    (/\ call.op = "set_remaining" /\ call.r > 0
     /\ \/ pre.timer.status = "done"
        \/ ActiveBefore /\ ElapsedBefore > pre.timer.remain)
        => timer.status = "done" /\ timer.remain = 0

C14_Witness ==
    /\ call.op = "set_remaining" /\ call.r > 0
    /\ ActiveBefore /\ ElapsedBefore > pre.timer.remain
    /\ pre.timer.remain > 0
    /\ timer.status = "done" /\ timer.remain = 0

\* C15: one reconciliation uses a single clock sample -- the seconds taken off
\* remaining are exactly the seconds update_time moves forward, and a timer
\* the expiry test left active has no negative remaining.
C15_SingleClockSample ==
    (call.op = "get_remaining" /\ ActiveBefore /\ timer.status = "active")
        => /\ pre.timer.remain - timer.remain
                = timer.update_time - pre.timer.update_time
           /\ timer.remain >= 0

\* C16: apart from set_status with an unrecognized status, no Timer operation
\* signals an error, in any reachable state and at any elapsed time.
C16_OperationsTotal ==
    call.op \in {"get_remaining", "get_status", "set_remaining", "end", "start",
                 "pause", "is_running", "is_paused", "is_done"}
        => ~out.raised

C16_Witness ==
    /\ call.op = "pause"
    /\ ActiveBefore /\ ElapsedBefore > 0
    /\ timer.status = "paused"
    /\ ~out.raised

\* ------------------------------------------------------- outlet claims
\* the response r is a JSON body with code 0
SuccessResponse(r) == r.kind = "json" /\ r.body.code = 0

\* the response r is a JSON body with a code other than 0
BadCodeResponse(r) == r.kind = "json" /\ r.body.code # 0

\* C17: for every outlet class, turn(status) returns True and sets
\* device_status to the requested status only when the API response is a
\* success (code 0); on a response with a non-zero code it returns False and
\* leaves device_status unchanged.
C17_TurnOnlyOnSuccess ==
    obs.op = "turn"
        => /\ obs.ret = "True"
                => SuccessResponse(obs.r) /\ dev.device_status = obs.arg
           /\ dev.device_status # obs.before_status => SuccessResponse(obs.r)
           /\ BadCodeResponse(obs.r)
                => obs.ret = "False" /\ dev.device_status = obs.before_status

\* C18: update_energy stops after a failed weekly fetch -- no monthly and no
\* yearly request is issued, the month and year entries are set to empty, and
\* a bad response code logs exactly one failure; after a successful weekly
\* fetch an update_energy that returns has issued the weekly, the monthly and
\* the yearly request in that order (a rate-limit error ends it earlier, after
\* a prefix of that order).
C18_StopsAfterFailedWeek ==
    (obs.op = "update_energy" /\ obs.ran /\ Supports(dev.cls))
        => /\ (~obs.raised /\ ~EnergyOk(dev.cls, obs.r))
                => /\ obs.requests = <<"week">>
                   /\ dev.energy["week"] = "None"
                   /\ dev.energy["month"] = "empty"
                   /\ dev.energy["year"] = "empty"
                   /\ (BadCodeResponse(obs.r) => obs.errors = 1)
           /\ (~obs.raised /\ EnergyOk(dev.cls, obs.r))
                => obs.requests = <<"week", "month", "year">>
           /\ obs.raised
                => \E n \in 1 .. 3 :
                     obs.requests = SubSeq(<<"week", "month", "year">>, 1, n)

C18_Witness ==
    /\ obs.op = "update_energy" /\ obs.ran
    /\ dev.cls = "VeSyncOutdoorPlug"
    /\ BadCodeResponse(obs.r)
    /\ obs.requests = <<"week">>
    /\ obs.errors = 1
    /\ dev.energy["month"] = "empty"

\* C19: VeSyncOutletBSDGO1.get_details sets device_status to 'on' exactly when
\* the successful response's result has powerSwitch_1 == 1 and to 'off'
\* otherwise, and returns a truthy value; on a response with a bad code it
\* leaves device_status unchanged and returns False.
C19_DetailsReportsOutcome ==
    obs.op = "get_details"
        => /\ (SuccessResponse(obs.r) /\ obs.r.body.result_code = 0)
                => /\ dev.device_status =
                        IF obs.r.body.powerSwitch_1 = 1 THEN STATUS_ON
                        ELSE STATUS_OFF
                   /\ obs.ret = "True"
           /\ BadCodeResponse(obs.r)
                => /\ dev.device_status = obs.before_status
                   /\ obs.ret = "False"

\* the HTTP outcome is a 200 response with a JSON body
Json200(h) == h.kind = "response" /\ h.status_code = 200 /\ h.json

RECURSIVE CodeFields(_)
CodeFields(v) ==
    IF v.tag = "dict"
    THEN {item[2] : item \in {i \in v.items : i[1] = "code"}}
         \cup UNION {CodeFields(item[2]) : item \in v.items}
    ELSE {}

\* C21: nested_code_check(response) is true exactly when every 'code' field at
\* every nesting depth of the response mapping equals 0.
C21_AllCodesZero ==
    chk.op = "nested_code_check"
        => (chk.result <=> \A c \in CodeFields(chk.response) : c = IntVal(0))

C21_Witness ==
    /\ chk.op = "nested_code_check"
    /\ <<"code", IntVal(0)>> \in chk.response.items
    /\ \E item \in chk.response.items :
         /\ item[1] = "result"
         /\ <<"code", IntVal(1)>> \in item[2].items
    /\ ~chk.result

\* ------------------------------------------------------- timer claims, continued
\* the reconciliation of the timer t0 at the one instant n left the timer t
ReconciledAt(t0, n, t) ==
    IF t0.status = "paused"
    THEN t.status = "paused" /\ t.remain = t0.remain
    ELSE IF t0.status = "done" \/ SecondsSinceCheck(t0, n) > t0.remain
         THEN t.status = "done" /\ t.remain = 0 /\ t.update_time = None
         ELSE /\ t.status = "active"
              /\ t.remain = t0.remain - SecondsSinceCheck(t0, n)
              /\ t.update_time = n

\* C22: reconciliation of an active Timer, with elapsed = now - update_time
\* taken at one instant `now` of the call: elapsed <= remaining gives remaining
\* - elapsed, update_time = now and status 'active'; elapsed > remaining gives
\* status 'done', remaining 0 and update_time None; a paused Timer keeps its
\* status and remaining.
C22_ReconciliationStep ==
    (call.op = "get_remaining" /\ pre.timer.status \in {"active", "paused"})
        => \E n \in pre.now .. now : ReconciledAt(pre.timer, n, timer)

\* C23: start() changes nothing (status, remaining, update_time unchanged, no
\* reconciliation) unless the status is 'paused'; on a paused Timer it yields
\* status 'active' with update_time == now and remaining unchanged.
C23_StartOnlyResumes ==
    call.op = "start"
        => IF pre.timer.status # "paused"
           THEN timer = pre.timer
           ELSE /\ timer.status = "active"
                /\ timer.update_time = now
                /\ timer.remain = pre.timer.remain
                /\ timer.timer_duration = pre.timer.timer_duration

C23_Witness ==
    /\ call.op = "start"
    /\ pre.timer.status = "paused" /\ pre.timer.remain > 0
    /\ pre.now > pause_clock
    /\ timer.status = "active" /\ timer.update_time = now
    /\ timer.remain = pre.timer.remain

\* pause() on the timer t0, with the elapsed time taken at the one instant n,
\* left the timer t
PausedAt(t0, n, t) ==
    IF t0.status = "done"
    THEN t = t0
    ELSE IF t0.status = "active" /\ SecondsSinceCheck(t0, n) > t0.remain
         THEN t.status = "done" /\ t.remain = 0 /\ t.update_time = None
         ELSE /\ t.status = "paused"
              /\ t.update_time = None
              /\ t.remain =
                   IF t0.status = "active"
                   THEN t0.remain - SecondsSinceCheck(t0, n)
                   ELSE t0.remain

\* C24: pause() reconciles first -- on an active Timer whose elapsed time
\* exceeds remaining it ends in 'done', on a done Timer it changes nothing,
\* otherwise it ends 'paused' with update_time None and remaining reduced by
\* exactly the time elapsed since the previous reconciliation (the elapsed
\* time being that of one instant of the call).
C24_PauseReconcilesFirst ==
    call.op = "pause"
        => \E n \in pre.now .. now : PausedAt(pre.timer, n, timer)

\* the ways the seconds that passed during the last operation fall into the
\* gaps between its k+1 clock samples, and the i-th sample under such a way
TicksOfCall(k) == {Q \in SUBSET (1 .. k) : Cardinality(Q) = now - pre.now}
SampleOfCall(Q, i) == pre.now + Cardinality({j \in Q : j < i})

\* set_remaining(r) on the timer t, reading the clock as the last call did
SetRemainingAs(Q, t, r) ==
    TimeRemainingSetter(t, r, SampleOfCall(Q, 1), SampleOfCall(Q, 2),
                        SampleOfCall(Q, 3))

\* set_status(s) on the timer t, reading the clock as the last call did after
\* its first three samples
SetStatusAs(Q, t, s) ==
    StatusSetter(t, s, SampleOfCall(Q, 4), SampleOfCall(Q, 5),
                 SampleOfCall(Q, 6), SampleOfCall(Q, 7))

\* C25: update(remaining=r, status=s) produces exactly the state produced by
\* set_remaining(r) followed by set_status(s), an omitted argument skipping
\* its step; update(remaining=r, status='active') with r <= 0 ends in 'done',
\* and update() with no arguments changes nothing.
C25_UpdateIsSetThenSet ==
    call.op = "update"
        => /\ \E Q \in TicksOfCall(6) :
                LET u == IF call.hasR
                         THEN SetRemainingAs(Q, pre.timer, call.r)
                         ELSE pre.timer
                IN  timer = IF call.hasS THEN SetStatusAs(Q, u, call.s) ELSE u
           /\ (call.hasR /\ call.r <= 0 /\ call.hasS /\ call.s = "active")
                => timer.status = "done"
           /\ (~call.hasR /\ ~call.hasS) => timer = pre.timer

C25_Witness ==
    /\ call.op = "update"
    /\ call.hasR /\ call.r > 0
    /\ call.hasS /\ call.s = "active"
    /\ pre.timer.status = "paused" /\ pre.timer.remain # call.r
    /\ timer.status = "active" /\ timer.remain = call.r
    /\ timer.update_time = now

\* ------------------------------------------------------- energy claims, continued
\* the energy update interval of the outlet has been exceeded now
IntervalExceeded ==
    \/ dev.update_energy_ts = None
    \/ now - dev.update_energy_ts > dev.energy_update_interval

\* C26: energy updates are throttled -- update_energy(bypass_check=False) runs
\* only when no energy update has happened yet or more than
\* energy_update_interval seconds have passed since update_energy_ts, and
\* otherwise issues no request and changes no state; with bypass_check=True it
\* always runs; every update_energy that runs sets update_energy_ts to the
\* time of the call.
C26_EnergyThrottled ==
    [][obs'.op = "update_energy"
        => /\ (~obs'.bypass /\ ~IntervalExceeded)
                => ~obs'.ran /\ obs'.requests = <<>> /\ dev' = dev
           /\ (~obs'.bypass /\ IntervalExceeded) => obs'.ran
           /\ obs'.bypass => obs'.ran
           /\ obs'.requests # <<>> => obs'.ran
           /\ obs'.ran => dev'.update_energy_ts \in now .. now']_vars

C26_Witness ==
    /\ obs.op = "update_energy"
    /\ ~obs.bypass /\ ~obs.ran
    /\ obs.requests = <<>>
    /\ Supports(dev.cls)
    /\ dev.update_energy_ts # None
    /\ now > dev.update_energy_ts

\* ------------------------------------------------------- timer claims on reads
\* C27: reads are path-independent -- for an active Timer that starts with
\* remaining R at time t0 and is only read, get_remaining at time t returns
\* max(0, R - (t - t0)) and the status afterwards is 'done' exactly when
\* t - t0 > R, however many reads happened in between (t being an instant of
\* the call).
C27_ReadsPathIndependent ==
    call.op = "get_remaining"
        => \E t \in pre.now .. now :
             /\ out.remaining = Max(0, base.remain - (t - base.update_time))
             /\ timer.status = "done" <=> t - base.update_time > base.remain

RunningNow == Running(timer, now, now, now).value
PausedNow == Paused(timer)
DoneNow == Done(timer, now, now, now).value

\* the timer as a read at this instant leaves it
ReconciledNow == InternalUpdate(timer, now, now, now)

\* C29 as stated: evaluated at the same instant, exactly one of running,
\* paused and done is true; paused and done are never both true; a timer with
\* remaining 0 is never reported with status 'active' or 'paused'.
C29_PredicatesPartition ==
    /\ \/ RunningNow /\ ~PausedNow /\ ~DoneNow
       \/ ~RunningNow /\ PausedNow /\ ~DoneNow
       \/ ~RunningNow /\ ~PausedNow /\ DoneNow
    /\ ~(PausedNow /\ DoneNow)
    /\ ReconciledNow.remain = 0 => ReconciledNow.status = "done"

\* C29 amended: evaluated at the same instant, at least one of running,
\* paused and done is true and running excludes the other two; paused and done
\* are both true exactly for a paused timer whose remaining is <= 0.
C29_PredicatesCover ==
    /\ RunningNow \/ PausedNow \/ DoneNow
    /\ ~(RunningNow /\ PausedNow)
    /\ ~(RunningNow /\ DoneNow)
    /\ (PausedNow /\ DoneNow) <=> (timer.status = "paused" /\ timer.remain <= 0)

C29_Witness ==
    /\ call.op = "pause"
    /\ ActiveBefore /\ pre.timer.remain > 0
    /\ ElapsedBefore = pre.timer.remain
    /\ timer.status = "paused" /\ timer.remain = 0
    /\ PausedNow /\ DoneNow /\ ~RunningNow

\* C30: update is not atomic on error -- update(remaining=r, status=s) with an
\* unrecognized s raises only after set_remaining(r) has been applied, so
\* after the error the Timer is as set_remaining(r) left it: done when r <= 0,
\* holding remaining r when it is not done.
C30_UpdateNotAtomic ==
    (call.op = "update" /\ call.hasR /\ call.hasS /\ call.s \notin ValidStatuses)
        => /\ out.raised
           /\ \E Q \in TicksOfCall(6) : timer = SetRemainingAs(Q, pre.timer, call.r)
           /\ call.r <= 0 => timer.status = "done"
           /\ timer.status # "done" => timer.remain = call.r
           /\ timer.status \in {"done", pre.timer.status}

C30_Witness ==
    /\ call.op = "update" /\ call.hasR /\ call.hasS
    /\ call.s = "bogus" /\ call.r > 0
    /\ pre.timer.status = "active" /\ pre.timer.remain # call.r
    /\ out.raised
    /\ timer.status = "active" /\ timer.remain = call.r
====
